---- MODULE Spec2Model ----
(***************************************************************************)
(* Model of the Tektronix DPO4000 driver (instrument_module/Tek_DPO4000.py):*)
(* the waveform acquisition sequencer acquire_waveform and the readiness   *)
(* poller wait_until_ready, run by the threads of Procs over one VISA      *)
(* transport (self.device); and of the connection bootstrap of all driver  *)
(* classes (visa_utils.py and each __init__) with the identity and         *)
(* measurement operations of the Rigol, Keithley and Keysight drivers.     *)
(*                                                                         *)
(* The transport is the pyvisa resource the driver is handed: write(cmd),  *)
(* query(cmd) -> str and read_raw() -> bytes, each of which either         *)
(* completes or raises.  The instrument behind it keeps the data selection *)
(* (source channel, width, encoding) and one output buffer; a newly        *)
(* received message discards an unread response.                           *)
(*                                                                         *)
(* Floats are modelled as the naturals written by decimal digit strings.   *)
(***************************************************************************)
EXTENDS Naturals, Sequences, FiniteSets

\* Bound on the faults of a run in which one thread uses the driver: the
\* exceptions the transport raises, the malformed responses and the *OPC?
\* responses of 0.
MaxFails == 2

\* The same bound for a run in which the threads share the driver.
MaxSharedFails == 1

\* The threads that use the driver object.
Procs == {"t1", "t2"}

\* Arguments of acquire_waveform that the callers draw from.
Chans == {"1", "2"}
Widths == {"1"}
Encs == {"RPB"}
Requests == [chan : Chans, width : Widths, enc : Encs]

Digits == {"0", "1", "2", "3", "4", "5", "6", "7", "8", "9"}

DigitVal(c) ==
    CASE c = "0" -> 0 [] c = "1" -> 1 [] c = "2" -> 2 [] c = "3" -> 3
      [] c = "4" -> 4 [] c = "5" -> 5 [] c = "6" -> 6 [] c = "7" -> 7
      [] c = "8" -> 8 [] c = "9" -> 9

\* float(s) / int(s) raise ValueError unless s is a numeral.
IsNumeral(s) == Len(s) > 0 /\ \A i \in 1..Len(s) : s[i] \in Digits

RECURSIVE NumeralValue(_)
NumeralValue(s) ==
    IF Len(s) = 0 THEN 0
    ELSE 10 * NumeralValue(SubSeq(s, 1, Len(s) - 1)) + DigitVal(s[Len(s)])

\* Python values held by the locals of acquire_waveform.
Unbound == [k |-> "unbound", v |-> 0]
None == [k |-> "None", v |-> 0]
Num(n) == [k |-> "float", v |-> n]

\* float(s) of a numeral s; on any other string float raises ValueError,
\* which the callers decide with IsNumeral before they convert.
FloatOfStr(s) == Num(NumeralValue(s))

\* ---- SCPI command strings ------------------------------------------------
CmdDataSource(chan) == <<"DATA:SOU CH", chan>>
CmdDataWidth(width) == <<"DATA:WIDTH ", width>>
CmdDataEncoding(enc) == <<"DATA:ENC ", enc>>
CmdWai == <<"*WAI">>
CmdYmult == <<"WFMPRE:YMULT?">>
CmdYzero == <<"WFMPRE:YZERO?">>
CmdYoff == <<"WFMPRE:YOFF?">>
CmdXincr == <<"WFMPRE:XINCR?">>
CmdCurve == <<"CURVE?">>
CmdOpc == <<"*OPC?">>
CmdIdn == <<"*IDN?">>

\* meas_range and resolution defaults of meas_dcv / meas_res.
DefaultRange(cls) == IF cls = "Keithley2100" THEN "100" ELSE "AUTO"
CmdMeasDcv(cls) == <<"MEASURE:VOLTAGE:DC? ", DefaultRange(cls), ",", "DEF">>
CmdMeasRes(cls) == <<"MEASURE:RESISTANCE? ", DefaultRange(cls), ",", "DEF">>

\* ---- visa_utils ----------------------------------------------------------
\* A Python str, None, or an attribute that was never assigned.
Addr(s) == [k |-> "str", s |-> s]
AddrNone == [k |-> "None", s |-> << >>]
AddrUnset == [k |-> "unset", s |-> << >>]

\* str(n) of a natural, as f"{port}" formats it.
DigitChar(d) ==
    CASE d = 0 -> "0" [] d = 1 -> "1" [] d = 2 -> "2" [] d = 3 -> "3"
      [] d = 4 -> "4" [] d = 5 -> "5" [] d = 6 -> "6" [] d = 7 -> "7"
      [] d = 8 -> "8" [] d = 9 -> "9"

RECURSIVE StrOfNat(_)
StrOfNat(n) ==
    IF n < 10 THEN <<DigitChar(n)>>
    ELSE StrOfNat(n \div 10) \o <<DigitChar(n % 10)>>

\* connect_usb_instrument(address); ok = rm.open_resource returned a handle,
\* otherwise it raised VisaIOError.  opened lists the resource strings
\* handed to rm.open_resource.
ConnectUsbInstrument(address, ok) ==
    IF ok
    THEN [device |-> "handle", address |-> Addr(address),
          status |-> "Connected", opened |-> <<address>>]
    ELSE [device |-> "None", address |-> AddrNone,
          status |-> "Not Connected", opened |-> <<address>>]

\* Slip: the port is left out of the socket resource string.
ResourceStr_NoPort(ip_address, port, use_socket) ==
    IF use_socket
    THEN <<"TCPIP0::">> \o ip_address \o <<"::SOCKET">>
    ELSE <<"TCPIP0::">> \o ip_address \o <<"::INSTR">>

\* resource_str of connect_ethernet_instrument.
ResourceStr(ip_address, port, use_socket) ==
    IF use_socket
    THEN <<"TCPIP0::">> \o ip_address \o <<"::">> \o StrOfNat(port)
             \o <<"::SOCKET">>
    ELSE <<"TCPIP0::">> \o ip_address \o <<"::INSTR">>

\* port=5025 of connect_ethernet_instrument.
DefaultPort == 5025

\* connect_ethernet_instrument(ip_address, port, use_socket).
ConnectEthernetInstrument(ip_address, port, use_socket, ok) ==
    LET resource_str == ResourceStr(ip_address, port, use_socket)
    IN  IF ok
        THEN [device |-> "handle", address |-> Addr(resource_str),
              status |-> "Connected", opened |-> <<resource_str>>]
        ELSE [device |-> "None", address |-> AddrNone,
              status |-> "Not Connected", opened |-> <<resource_str>>]

\* ---- the driver classes and their constructors ---------------------------
Classes == {"DPO4000", "DG4000", "DP800", "Keithley2100", "Keithley6221",
            "Keysight34461A"}

\* connection_method arguments the callers draw from; "GPIB" is one that no
\* driver handles.
Methods == {"USB", "IP", "GPIB"}

\* address arguments: a VISA resource string and an IP address.
UsbAddress == <<"USB0::0x0699::0x0401::C000001::INSTR">>
IpAddress == <<"10.0.0.5">>
Addresses == {UsbAddress, IpAddress}
Ports == {DefaultPort, 80}

\* The branches of __init__ that each class has.
HasUsb(cls) == cls \in {"DPO4000", "DG4000", "DP800", "Keithley2100",
                        "Keysight34461A"}
HasIp(cls) == cls \in {"DPO4000", "DG4000", "DP800", "Keithley6221",
                       "Keysight34461A"}

\* Slip: connected_with is set whatever the status.
ConnectedWith_Always(tag, status) == tag

\* self.connected_with = tag if self.status == "Connected" else None
ConnectedWith(tag, status) == IF status = "Connected" THEN tag ELSE "None"

\* Slip: the else branch of Keysight34461A falls back to a USB open.
InitFields_ElseOpens(cls, method, address, ok) ==
    LET usb == ConnectUsbInstrument(address, ok)
        eth == ConnectEthernetInstrument(address, DefaultPort, FALSE, ok)
    IN  IF method = "USB" /\ HasUsb(cls)
        THEN [device |-> usb.device, address |-> usb.address,
              status |-> usb.status, opened |-> usb.opened,
              connected_with |-> ConnectedWith("USB", usb.status)]
        ELSE IF method = "IP" /\ HasIp(cls)
        THEN [device |-> eth.device, address |-> eth.address,
              status |-> eth.status, opened |-> eth.opened,
              connected_with |-> ConnectedWith("Ethernet", eth.status)]
        ELSE IF cls = "Keysight34461A"
        THEN [device |-> usb.device, address |-> usb.address,
              status |-> usb.status, opened |-> usb.opened,
              connected_with |-> ConnectedWith("USB", usb.status)]
        ELSE [device |-> "unset", address |-> AddrUnset, status |-> "unset",
              opened |-> << >>, connected_with |-> "unset"]

\* The if / elif (/ else) of __init__: the attributes it assigns.
InitFields(cls, method, address, ok) ==
    LET usb == ConnectUsbInstrument(address, ok)
        eth == ConnectEthernetInstrument(address, DefaultPort, FALSE, ok)
    IN  IF method = "USB" /\ HasUsb(cls)
        THEN [device |-> usb.device, address |-> usb.address,
              status |-> usb.status, opened |-> usb.opened,
              connected_with |-> ConnectedWith("USB", usb.status)]
        ELSE IF method = "IP" /\ HasIp(cls)
        THEN [device |-> eth.device, address |-> eth.address,
              status |-> eth.status, opened |-> eth.opened,
              connected_with |-> ConnectedWith("Ethernet", eth.status)]
        ELSE IF cls = "Keysight34461A"
        THEN [device |-> "None", address |-> AddrNone,
              status |-> "Invalid Method", opened |-> << >>,
              connected_with |-> "None"]
        ELSE [device |-> "unset", address |-> AddrUnset, status |-> "unset",
              opened |-> << >>, connected_with |-> "unset"]

\* TIMEOUT = 20000 of DPO4000.__init__; self.device.timeout = 5000 of
\* Keysight34461A.__init__.
TIMEOUT == 20000
KeysightTimeout == 5000

\* DPO4000: self.device.timeout = TIMEOUT raises AttributeError unless
\* self.device is a handle.
InitRaises(cls, f) == cls = "DPO4000" /\ f.device # "handle"

\* The values __init__ assigns to self.device.timeout.
InitTimeout(cls, f) ==
    IF cls = "DPO4000" /\ f.device = "handle" THEN <<TIMEOUT>>
    ELSE IF cls = "Keysight34461A" /\ f.status = "Connected"
            /\ f.device = "handle" THEN <<KeysightTimeout>>
    ELSE << >>

\* No driver object.  Besides its attributes an object carries the
\* connection_method it was constructed with.
NoObject == [cls |-> "-", method |-> "-", device |-> "unset",
             address |-> AddrUnset,
             status |-> "unset", connected_with |-> "unset",
             timeout |-> << >>]

\* Outcomes of a call: what it returned or raised.
NoTuple == [device |-> "-", address |-> AddrUnset, status |-> "-"]
NoRet == [k |-> "-", n |-> 0, s |-> << >>, t |-> NoTuple]
RetNone == [NoRet EXCEPT !.k = "None"]
RetObject == [NoRet EXCEPT !.k = "object"]
RetFloat(n) == [NoRet EXCEPT !.k = "float", !.n = n]
RetInt(n) == [NoRet EXCEPT !.k = "int", !.n = n]
RetStr(s) == [NoRet EXCEPT !.k = "str", !.s = s]
RetRaise(e) == [NoRet EXCEPT !.k = "raise", !.s = <<e>>]
RetTuple(c) == [NoRet EXCEPT !.k = "tuple",
                !.t = [device |-> c.device, address |-> c.address,
                       status |-> c.status]]

\* The last call of a constructor, a connect function or a driver operation
\* with its inputs.
NoCall == [op |-> "-", cls |-> "-", method |-> "-", address |-> << >>,
           port |-> 0, use_socket |-> FALSE, ok |-> TRUE, resp |-> << >>]

\* cls(connection_method, address): the object, if __init__ completes.
New(cls, method, address, ok) ==
    LET f == InitFields(cls, method, address, ok)
    IN  [obj |-> IF InitRaises(cls, f) THEN NoObject
                 ELSE [cls |-> cls, method |-> method, device |-> f.device,
                       address |-> f.address, status |-> f.status,
                       connected_with |-> f.connected_with,
                       timeout |-> InitTimeout(cls, f)],
         opened |-> f.opened,
         call |-> [NoCall EXCEPT !.op = "__init__", !.cls = cls,
                   !.method = method, !.address = address, !.ok = ok],
         ret |-> IF InitRaises(cls, f) THEN RetRaise("AttributeError")
                 ELSE RetObject]

\* ---- the instrument behind the transport ---------------------------------
\* Waveform preamble of each channel, as the instrument prints it.
PreambleResp(cmd, src) ==
    CASE cmd = CmdYmult -> IF src = "1" THEN <<"1", "2">> ELSE <<"2", "2">>
      [] cmd = CmdYzero -> IF src = "1" THEN <<"0">> ELSE <<"7">>
      [] cmd = CmdYoff -> IF src = "1" THEN <<"1", "2", "7">> ELSE <<"6", "4">>
      [] cmd = CmdXincr -> IF src = "1" THEN <<"4">> ELSE <<"8">>

\* Responses that are not numerals.
Malformed == {<< >>, <<"1", "x">>}

\* The sample block of the selected source in the selected format.
NoBlock == [k |-> "none", src |-> "-", width |-> "-", enc |-> "-"]
IdnPending == [k |-> "idn", src |-> "-", width |-> "-", enc |-> "-"]
Block(i) == [k |-> "bytes", src |-> i.src, width |-> i.width, enc |-> i.enc]

\* Effect of a received message on the data selection.
InstApply(i, cmd) ==
    IF Len(cmd) = 2 /\ cmd[1] = "DATA:SOU CH" THEN [i EXCEPT !.src = cmd[2]]
    ELSE IF Len(cmd) = 2 /\ cmd[1] = "DATA:WIDTH " THEN [i EXCEPT !.width = cmd[2]]
    ELSE IF Len(cmd) = 2 /\ cmd[1] = "DATA:ENC " THEN [i EXCEPT !.enc = cmd[2]]
    ELSE i

VARIABLES
    pc,          \* position of each thread
    req,         \* arguments (chan, width, enc) of the current call
    loc,         \* locals ymult, yzero, yoff, xincr, data of the call
    good,        \* local good of acquire_waveform
    inst,        \* data selection of the instrument
    outbuf,      \* unread response in the instrument's output buffer
    sent,        \* commands the current attempt handed to the transport
    attempts,    \* loop iterations started by the current call
    curveFails,  \* faults of the sample-block step in the current call
    otherFaults, \* faults of every other step in the current call
    failed,      \* the transport raised during the current attempt
    fresh,       \* locals assigned during the current attempt
    lastRead,    \* what read_raw last delivered to the thread
    foreign,     \* another thread used the transport during the call
    threads,     \* the threads that use the driver in this run
    budget,      \* faults the transport may still inject
    wlog,        \* sleeps of the current call and outcomes of its *OPC? queries
    obj,         \* the driver object: its class and attributes
    opened,      \* resource strings the last call handed to open_resource
    call,        \* the last constructor / connect / operation call
    ret          \* what that call returned or raised

vars == <<pc, req, loc, good, inst, outbuf, sent, attempts, curveFails,
          otherFaults, failed, fresh, lastRead, foreign, threads, budget,
          wlog, obj, opened, call, ret>>

\* The object and the record of the calls made on the way to it.
drv == <<obj, opened, call, ret>>

\* The state of the threads, the transport and the instrument.
acq == <<pc, req, loc, good, inst, outbuf, sent, attempts, curveFails,
         otherFaults, failed, fresh, lastRead, foreign, threads, budget,
         wlog>>

AcqSteps == {"loop", "src", "width", "enc", "wai", "ymult", "yzero", "yoff",
             "xincr", "curve", "read"}
Returned == {"idle", "ret", "wret"}
LocalNames == {"ymult", "yzero", "yoff", "xincr", "data"}

NoLocals == [ymult |-> Unbound, yzero |-> Unbound, yoff |-> Unbound,
             xincr |-> Unbound, data |-> NoBlock]

\* One thread that constructs a driver and uses it over a faulty transport,
\* or all threads over the transport of a connected DPO4000.
Scenarios == {[threads |-> {"t1"}, budget |-> MaxFails,
               drv |-> [obj |-> NoObject, opened |-> << >>,
                        call |-> NoCall, ret |-> NoRet]],
              [threads |-> Procs, budget |-> MaxSharedFails,
               drv |-> New("DPO4000", "USB", UsbAddress, TRUE)]}

Init ==
    /\ \E sc \in Scenarios :
          /\ threads = sc.threads /\ budget = sc.budget
          /\ obj = sc.drv.obj /\ opened = sc.drv.opened
          /\ call = sc.drv.call /\ ret = sc.drv.ret
    /\ pc = [p \in Procs |-> "idle"]
    /\ req = [p \in Procs |-> [chan |-> "1", width |-> "1", enc |-> "RPB"]]
    /\ loc = [p \in Procs |-> NoLocals]
    /\ good = [p \in Procs |-> 0]
    /\ inst = [src |-> "1", width |-> "2", enc |-> "RIB"]
    /\ outbuf = NoBlock
    /\ sent = [p \in Procs |-> << >>]
    /\ attempts = [p \in Procs |-> 0]
    /\ curveFails = [p \in Procs |-> 0]
    /\ otherFaults = [p \in Procs |-> 0]
    /\ failed = [p \in Procs |-> FALSE]
    /\ fresh = [p \in Procs |-> {}]
    /\ lastRead = [p \in Procs |-> NoBlock]
    /\ foreign = [p \in Procs |-> FALSE]
    /\ wlog = [p \in Procs |-> << >>]

\* ---- transport -----------------------------------------------------------
\* The transport may still inject a fault into the call of p.
MayFail == budget > 0

\* Any use of the transport by p overlaps the calls the other threads have
\* in progress.
Touch(p) ==
    foreign' = [q \in Procs |-> IF q # p /\ pc[q] \in AcqSteps
                                THEN TRUE ELSE foreign[q]]

\* self.device.write(cmd): ok = the message reached the instrument.
DeviceWrite(p, cmd, ok) ==
    /\ sent' = [sent EXCEPT ![p] = Append(@, cmd)]
    /\ inst' = IF ok THEN InstApply(inst, cmd) ELSE inst
    /\ outbuf' = IF ok THEN (IF cmd = CmdCurve THEN Block(inst)
                             ELSE IF cmd = CmdIdn THEN IdnPending
                             ELSE NoBlock)
                 ELSE outbuf
    /\ Touch(p)

\* self.device.query(cmd): write then read of the response, in one exchange.
DeviceQuery(p, cmd, ok) ==
    /\ sent' = [sent EXCEPT ![p] = Append(@, cmd)]
    /\ outbuf' = IF ok THEN NoBlock ELSE outbuf
    /\ Touch(p)
    /\ UNCHANGED inst

\* ---- acquire_waveform ----------------------------------------------------
\* Slip: a failure of the sample-block step resumes at CURVE? instead of
\* restarting the sequence.
Except_ResumeAtCurve(p, atCurve) ==
    /\ good' = [good EXCEPT ![p] = 0]
    /\ pc' = [pc EXCEPT ![p] = IF atCurve THEN "curve" ELSE "loop"]
    /\ curveFails' = [curveFails EXCEPT ![p] = IF atCurve THEN @ + 1 ELSE @]
    /\ otherFaults' = [otherFaults EXCEPT ![p] = IF atCurve THEN @ ELSE @ + 1]
    /\ budget' = budget - 1

\* Slip: the except clause sets good = 1.
Except_GoodOne(p, atCurve) ==
    /\ good' = [good EXCEPT ![p] = 1]
    /\ pc' = [pc EXCEPT ![p] = "loop"]
    /\ curveFails' = [curveFails EXCEPT ![p] = IF atCurve THEN @ + 1 ELSE @]
    /\ otherFaults' = [otherFaults EXCEPT ![p] = IF atCurve THEN @ ELSE @ + 1]
    /\ budget' = budget - 1

\* except: good = 0, and control returns to the loop test.
Except(p, atCurve) ==
    /\ good' = [good EXCEPT ![p] = 0]
    /\ pc' = [pc EXCEPT ![p] = "loop"]
    /\ curveFails' = [curveFails EXCEPT ![p] = IF atCurve THEN @ + 1 ELSE @]
    /\ otherFaults' = [otherFaults EXCEPT ![p] = IF atCurve THEN @ ELSE @ + 1]
    /\ budget' = budget - 1

NoFault == UNCHANGED <<curveFails, otherFaults, budget>>

\* The call: no local is bound yet, good = 0.
AcquireWaveform(p) ==
    /\ obj.cls = "DPO4000"
    /\ pc[p] \in Returned
    /\ \E r \in Requests : req' = [req EXCEPT ![p] = r]
    /\ pc' = [pc EXCEPT ![p] = "loop"]
    /\ loc' = [loc EXCEPT ![p] = NoLocals]
    /\ good' = [good EXCEPT ![p] = 0]
    /\ sent' = [sent EXCEPT ![p] = << >>]
    /\ attempts' = [attempts EXCEPT ![p] = 0]
    /\ curveFails' = [curveFails EXCEPT ![p] = 0]
    /\ otherFaults' = [otherFaults EXCEPT ![p] = 0]
    /\ failed' = [failed EXCEPT ![p] = FALSE]
    /\ fresh' = [fresh EXCEPT ![p] = {}]
    /\ foreign' = [foreign EXCEPT ![p] = FALSE]
    /\ lastRead' = [lastRead EXCEPT ![p] = NoBlock]
    /\ wlog' = [wlog EXCEPT ![p] = << >>]
    /\ UNCHANGED <<inst, outbuf, threads, budget>>
    /\ UNCHANGED drv

\* Slip: the loop gives up after its first iteration.
LoopTest_OneAttempt(p) ==
    /\ pc[p] = "loop"
    /\ IF good[p] = 0 /\ attempts[p] = 0
       THEN /\ pc' = [pc EXCEPT ![p] = "src"]
            /\ attempts' = [attempts EXCEPT ![p] = @ + 1]
            /\ sent' = [sent EXCEPT ![p] = << >>]
            /\ failed' = [failed EXCEPT ![p] = FALSE]
            /\ fresh' = [fresh EXCEPT ![p] = {}]
       ELSE /\ pc' = [pc EXCEPT ![p] = "ret"]
            /\ UNCHANGED <<attempts, sent, failed, fresh>>
    /\ UNCHANGED <<req, loc, good, inst, outbuf, curveFails, otherFaults,
                   lastRead, foreign, threads, budget, wlog>>
    /\ UNCHANGED drv

\* Slip: a sleep before every retry of the sequence.
LoopTest_SleepsOnRetry(p) ==
    /\ pc[p] = "loop"
    /\ IF good[p] = 0
       THEN /\ pc' = [pc EXCEPT ![p] = "src"]
            /\ attempts' = [attempts EXCEPT ![p] = @ + 1]
            /\ sent' = [sent EXCEPT ![p] = << >>]
            /\ failed' = [failed EXCEPT ![p] = FALSE]
            /\ fresh' = [fresh EXCEPT ![p] = {}]
            /\ wlog' = [wlog EXCEPT ![p] =
                           IF attempts[p] > 0 THEN Append(@, "sleep") ELSE @]
       ELSE /\ pc' = [pc EXCEPT ![p] = "ret"]
            /\ UNCHANGED <<attempts, sent, failed, fresh, wlog>>
    /\ UNCHANGED <<req, loc, good, inst, outbuf, curveFails, otherFaults,
                   lastRead, foreign, threads, budget>>
    /\ UNCHANGED drv

\* while good == 0: ... ; return ymult, yzero, yoff, xincr, data
LoopTest(p) ==
    /\ pc[p] = "loop"
    /\ IF good[p] = 0
       THEN /\ pc' = [pc EXCEPT ![p] = "src"]
            /\ attempts' = [attempts EXCEPT ![p] = @ + 1]
            /\ sent' = [sent EXCEPT ![p] = << >>]
            /\ failed' = [failed EXCEPT ![p] = FALSE]
            /\ fresh' = [fresh EXCEPT ![p] = {}]
       ELSE /\ pc' = [pc EXCEPT ![p] = "ret"]
            /\ UNCHANGED <<attempts, sent, failed, fresh>>
    /\ UNCHANGED <<req, loc, good, inst, outbuf, curveFails, otherFaults,
                   lastRead, foreign, threads, budget, wlog>>
    /\ UNCHANGED drv

\* A configuration write of the try block: data_source, data_width,
\* data_encoding.
ConfigWrite(p, at, cmd, next) ==
    /\ pc[p] = at
    /\ \E ok \in BOOLEAN :
         /\ ok \/ MayFail
         /\ DeviceWrite(p, cmd, ok)
         /\ IF ok
            THEN /\ pc' = [pc EXCEPT ![p] = next]
                 /\ NoFault
                 /\ UNCHANGED <<good, failed>>
            ELSE /\ Except(p, FALSE)
                 /\ failed' = [failed EXCEPT ![p] = TRUE]
    /\ UNCHANGED <<req, loc, attempts, fresh, lastRead, threads, wlog>>
    /\ UNCHANGED drv

\* Slip: the source command names a fixed channel.
DataSource_Fixed(p) == ConfigWrite(p, "src", CmdDataSource("1"), "width")

DataSource(p) == ConfigWrite(p, "src", CmdDataSource(req[p].chan), "width")
DataWidth(p) == ConfigWrite(p, "width", CmdDataWidth(req[p].width), "enc")
\* Slip: the encoding command names a fixed encoding.
DataEncoding_Fixed(p) == ConfigWrite(p, "enc", CmdDataEncoding("RIB"), "wai")

DataEncoding(p) == ConfigWrite(p, "enc", CmdDataEncoding(req[p].enc), "wai")

\* Slip: wfmpre_ymult without its self.wai().
Wai_Skipped(p) ==
    /\ pc[p] = "wai"
    /\ pc' = [pc EXCEPT ![p] = "ymult"]
    /\ UNCHANGED <<req, loc, good, inst, outbuf, sent, attempts, curveFails,
                   otherFaults, failed, fresh, lastRead, foreign, threads,
                   budget, wlog>>
    /\ UNCHANGED drv

\* Slip: an exception of self.wai() is swallowed and the gain query goes on.
Wai_Swallowed(p) ==
    /\ pc[p] = "wai"
    /\ \E ok \in BOOLEAN :
         /\ ok \/ MayFail
         /\ DeviceWrite(p, CmdWai, ok)
         /\ pc' = [pc EXCEPT ![p] = "ymult"]
         /\ failed' = [failed EXCEPT ![p] = @ \/ ~ok]
         /\ otherFaults' = [otherFaults EXCEPT ![p] = IF ok THEN @ ELSE @ + 1]
         /\ budget' = IF ok THEN budget ELSE budget - 1
    /\ UNCHANGED <<req, loc, good, attempts, curveFails, fresh, lastRead,
                   threads, wlog>>
    /\ UNCHANGED drv

\* wfmpre_ymult, first half: self.wai().  An exception is caught inside
\* wfmpre_ymult, which returns None; float(None) in acquire_waveform raises
\* TypeError, which the bare except catches.
Wai(p) ==
    /\ pc[p] = "wai"
    /\ \E ok \in BOOLEAN :
         /\ ok \/ MayFail
         /\ DeviceWrite(p, CmdWai, ok)
         /\ IF ok
            THEN /\ pc' = [pc EXCEPT ![p] = "ymult"]
                 /\ NoFault
                 /\ UNCHANGED <<good, failed>>
            ELSE /\ Except(p, FALSE)
                 /\ failed' = [failed EXCEPT ![p] = TRUE]
    /\ UNCHANGED <<req, loc, attempts, fresh, lastRead, threads, wlog>>
    /\ UNCHANGED drv

\* Outcomes of a preamble query: the transport raises, or it returns the
\* instrument's response, well-formed or not.
QueryOutcomes(p, cmd) ==
    {[raised |-> FALSE, resp |-> PreambleResp(cmd, inst.src)]}
    \cup (IF MayFail
          THEN {[raised |-> TRUE, resp |-> << >>]}
               \cup {[raised |-> FALSE, resp |-> m] : m \in Malformed}
          ELSE {})

\* try: return float(self.device.query(command)) / except: return None
WfmpreValue(o) ==
    IF o.raised \/ ~IsNumeral(o.resp) THEN None ELSE FloatOfStr(o.resp)

\* Slip: ymult = self.wfmpre_ymult(), bound as returned.
Ymult_Unconverted(p) ==
    /\ pc[p] = "ymult"
    /\ \E o \in QueryOutcomes(p, CmdYmult) :
         /\ DeviceQuery(p, CmdYmult, ~o.raised)
         /\ loc' = [loc EXCEPT ![p].ymult = WfmpreValue(o)]
         /\ fresh' = [fresh EXCEPT ![p] = @ \cup {"ymult"}]
         /\ pc' = [pc EXCEPT ![p] = "yzero"]
         /\ otherFaults' = [otherFaults EXCEPT ![p] =
                               IF WfmpreValue(o) = None THEN @ + 1 ELSE @]
         /\ budget' = IF WfmpreValue(o) = None THEN budget - 1 ELSE budget
         /\ failed' = [failed EXCEPT ![p] = @ \/ o.raised]
    /\ UNCHANGED <<req, good, attempts, curveFails, lastRead, threads, wlog>>
    /\ UNCHANGED drv

\* wfmpre_ymult, second half, and ymult = float(self.wfmpre_ymult()):
\* the outer float raises on None.
Ymult(p) ==
    /\ pc[p] = "ymult"
    /\ \E o \in QueryOutcomes(p, CmdYmult) :
         /\ DeviceQuery(p, CmdYmult, ~o.raised)
         /\ IF WfmpreValue(o) = None
            THEN /\ Except(p, FALSE)
                 /\ UNCHANGED <<loc, fresh>>
            ELSE /\ loc' = [loc EXCEPT ![p].ymult = WfmpreValue(o)]
                 /\ fresh' = [fresh EXCEPT ![p] = @ \cup {"ymult"}]
                 /\ pc' = [pc EXCEPT ![p] = "yzero"]
                 /\ NoFault
                 /\ UNCHANGED good
         /\ failed' = [failed EXCEPT ![p] = @ \/ o.raised]
    /\ UNCHANGED <<req, attempts, lastRead, threads, wlog>>
    /\ UNCHANGED drv

\* yzero = self.wfmpre_yzero(), yoff = self.wfmpre_yoff(),
\* xincr = self.wfmpre_xincr(): the value is bound as returned.
PreambleRead(p, at, cmd, name, next) ==
    /\ pc[p] = at
    /\ \E o \in QueryOutcomes(p, cmd) :
         /\ DeviceQuery(p, cmd, ~o.raised)
         /\ loc' = [loc EXCEPT ![p][name] = WfmpreValue(o)]
         /\ fresh' = [fresh EXCEPT ![p] = @ \cup {name}]
         /\ pc' = [pc EXCEPT ![p] = next]
         /\ otherFaults' = [otherFaults EXCEPT ![p] =
                               IF WfmpreValue(o) = None THEN @ + 1 ELSE @]
         /\ budget' = IF WfmpreValue(o) = None THEN budget - 1 ELSE budget
         /\ failed' = [failed EXCEPT ![p] = @ \/ o.raised]
    /\ UNCHANGED <<req, good, attempts, curveFails, lastRead, threads, wlog>>
    /\ UNCHANGED drv

Yzero(p) == PreambleRead(p, "yzero", CmdYzero, "yzero", "yoff")
Yoff(p) == PreambleRead(p, "yoff", CmdYoff, "yoff", "xincr")
Xincr(p) == PreambleRead(p, "xincr", CmdXincr, "xincr", "curve")

\* self.device.write("CURVE?")
Curve(p) ==
    /\ pc[p] = "curve"
    /\ \E ok \in BOOLEAN :
         /\ ok \/ MayFail
         /\ DeviceWrite(p, CmdCurve, ok)
         /\ IF ok
            THEN /\ pc' = [pc EXCEPT ![p] = "read"]
                 /\ NoFault
                 /\ UNCHANGED <<good, failed>>
            ELSE /\ Except(p, TRUE)
                 /\ failed' = [failed EXCEPT ![p] = TRUE]
    /\ UNCHANGED <<req, loc, attempts, fresh, lastRead, threads, wlog>>
    /\ UNCHANGED drv

\* data = self.device.read_raw(); good = 1.  read_raw delivers the unread
\* response; with none to read it can only time out.
ReadRaw(p) ==
    /\ pc[p] = "read"
    /\ \E ok \in BOOLEAN :
         /\ IF ok THEN outbuf # NoBlock ELSE MayFail
         /\ IF ok
            THEN /\ loc' = [loc EXCEPT ![p].data = outbuf]
                 /\ lastRead' = [lastRead EXCEPT ![p] = outbuf]
                 /\ fresh' = [fresh EXCEPT ![p] = @ \cup {"data"}]
                 /\ outbuf' = NoBlock
                 /\ good' = [good EXCEPT ![p] = 1]
                 /\ pc' = [pc EXCEPT ![p] = "loop"]
                 /\ NoFault
                 /\ UNCHANGED failed
            ELSE /\ Except(p, TRUE)
                 /\ failed' = [failed EXCEPT ![p] = TRUE]
                 /\ UNCHANGED <<loc, lastRead, fresh, outbuf>>
    /\ Touch(p)
    /\ UNCHANGED <<req, inst, sent, attempts, threads, wlog>>
    /\ UNCHANGED drv

\* ---- wait_until_ready ---------------------------------------------------
\* What the instrument may answer to *OPC?.
OpcResps == {<<"1">>, <<"0">>, <<"1", "0">>} \cup Malformed

OpcOutcomes(p) ==
    {[raised |-> FALSE, resp |-> r] :
        r \in {x \in OpcResps : IsNumeral(x) /\ NumeralValue(x) # 0}}
    \cup (IF MayFail
          THEN {[raised |-> TRUE, resp |-> << >>]}
               \cup {[raised |-> FALSE, resp |-> r] : r \in OpcResps}
          ELSE {})

\* How the loop body of wait_until_ready ends for one query outcome:
\* int() of the response raises ValueError unless it is a numeral.
OpcEvent(o) ==
    IF o.raised THEN "raised"
    ELSE IF ~IsNumeral(o.resp) THEN "malformed"
    ELSE IF NumeralValue(o.resp) # 0 THEN "truthy"
    ELSE "falsy"

\* Slip: any integer response ends the wait.
OpcNext_BreakOnFalsy(ev) ==
    IF ev \in {"truthy", "falsy"} THEN "wret"
    ELSE IF ev \in {"raised", "malformed"} THEN "sleep"
    ELSE "opc"

\* Slip: a communication error ends the wait.
OpcNext_ReturnOnError(ev) ==
    IF ev \in {"truthy", "raised"} THEN "wret"
    ELSE IF ev = "malformed" THEN "sleep"
    ELSE "opc"

\* Where control goes after the event: break, the except clause, or
\* straight back to the top of while True.
OpcNext(ev) ==
    IF ev = "truthy" THEN "wret"
    ELSE IF ev \in {"raised", "malformed"} THEN "sleep"
    ELSE "opc"

\* The call.
WaitUntilReady(p) ==
    /\ obj.cls = "DPO4000"
    /\ pc[p] \in Returned
    /\ pc' = [pc EXCEPT ![p] = "opc"]
    /\ wlog' = [wlog EXCEPT ![p] = << >>]
    /\ sent' = [sent EXCEPT ![p] = << >>]
    /\ loc' = [loc EXCEPT ![p] = NoLocals]
    /\ good' = [good EXCEPT ![p] = 0]
    /\ attempts' = [attempts EXCEPT ![p] = 0]
    /\ curveFails' = [curveFails EXCEPT ![p] = 0]
    /\ otherFaults' = [otherFaults EXCEPT ![p] = 0]
    /\ failed' = [failed EXCEPT ![p] = FALSE]
    /\ fresh' = [fresh EXCEPT ![p] = {}]
    /\ foreign' = [foreign EXCEPT ![p] = FALSE]
    /\ lastRead' = [lastRead EXCEPT ![p] = NoBlock]
    /\ UNCHANGED <<req, inst, outbuf, threads, budget>>
    /\ UNCHANGED drv

\* if int(self.device.query("*OPC?")): break
Opc(p) ==
    /\ pc[p] = "opc"
    /\ \E o \in OpcOutcomes(p) :
         /\ DeviceQuery(p, CmdOpc, ~o.raised)
         /\ wlog' = [wlog EXCEPT ![p] = Append(@, OpcEvent(o))]
         /\ pc' = [pc EXCEPT ![p] = OpcNext(OpcEvent(o))]
         /\ budget' = IF OpcEvent(o) = "truthy" THEN budget ELSE budget - 1
    /\ UNCHANGED <<req, loc, good, attempts, curveFails, otherFaults, failed,
                   fresh, lastRead, threads>>
    /\ UNCHANGED drv

\* except Exception: sleep(0.1)
Sleep(p) ==
    /\ pc[p] = "sleep"
    /\ wlog' = [wlog EXCEPT ![p] = Append(@, "sleep")]
    /\ pc' = [pc EXCEPT ![p] = "opc"]
    /\ UNCHANGED <<req, loc, good, inst, outbuf, sent, attempts, curveFails,
                   otherFaults, failed, fresh, lastRead, foreign, threads,
                   budget>>
    /\ UNCHANGED drv

\* ---- construction and the operations of the other drivers ---------------
\* cls(connection_method, address).  A constructor that raises leaves no
\* object behind.
Construct(p) ==
    /\ pc[p] = "idle"
    /\ obj = NoObject
    /\ \E cls \in Classes, method \in Methods, address \in Addresses,
          ok \in BOOLEAN :
         LET n == New(cls, method, address, ok)
         IN  /\ obj' = n.obj
             /\ opened' = n.opened
             /\ call' = n.call
             /\ ret' = n.ret
    /\ UNCHANGED acq

\* A direct call of connect_usb_instrument(address).
CallConnectUsb(p) ==
    /\ pc[p] = "idle"
    /\ obj = NoObject
    /\ \E address \in Addresses, ok \in BOOLEAN :
         LET c == ConnectUsbInstrument(address, ok)
         IN  /\ opened' = c.opened
             /\ ret' = RetTuple(c)
             /\ call' = [NoCall EXCEPT !.op = "connect_usb_instrument",
                                       !.address = address, !.ok = ok]
    /\ UNCHANGED <<obj, acq>>

\* A direct call of connect_ethernet_instrument(ip_address, port, use_socket).
CallConnectEthernet(p) ==
    /\ pc[p] = "idle"
    /\ obj = NoObject
    /\ \E ip_address \in Addresses, port \in Ports, use_socket \in BOOLEAN,
          ok \in BOOLEAN :
         LET c == ConnectEthernetInstrument(ip_address, port, use_socket, ok)
         IN  /\ opened' = c.opened
             /\ ret' = RetTuple(c)
             /\ call' = [NoCall EXCEPT !.op = "connect_ethernet_instrument",
                                       !.address = ip_address,
                                       !.port = port,
                                       !.use_socket = use_socket, !.ok = ok]
    /\ UNCHANGED <<obj, acq>>

\* The operations modelled for each class besides those of DPO4000.
Ops(cls) ==
    IF cls \in {"DG4000", "Keithley6221"} THEN {"idn", "get_idn"}
    ELSE IF cls \in {"Keithley2100", "Keysight34461A"}
    THEN {"meas_dcv", "meas_res"}
    ELSE {}

\* A thread calls one of them on the object.
CallOp(p) ==
    /\ pc[p] = "idle"
    /\ \E op \in Ops(obj.cls) :
         /\ pc' = [pc EXCEPT ![p] = op]
         /\ call' = [NoCall EXCEPT !.op = op, !.cls = obj.cls]
    /\ sent' = [sent EXCEPT ![p] = << >>]
    /\ opened' = << >>
    /\ ret' = NoRet
    /\ UNCHANGED <<req, loc, good, inst, outbuf, attempts, curveFails,
                   otherFaults, failed, fresh, lastRead, foreign, threads,
                   budget, wlog, obj>>

\* What the instrument answers to *IDN?.
IdnResp(cls) ==
    IF cls = "DG4000" THEN <<"Rigol Technologies,DG4102">>
    ELSE <<"KEITHLEY INSTRUMENTS INC.,MODEL 6221">>

\* What write returns: the number of bytes it wrote, "*IDN?" and the
\* termination character.
BytesWritten == 6

\* The frame of an operation that returns in one exchange.
OpFrame == UNCHANGED <<req, loc, good, attempts, curveFails, otherFaults,
                       failed, fresh, lastRead, threads, budget, wlog, obj,
                       opened>>

\* No exchange: self.device is None or was never assigned.
NoExchange == UNCHANGED <<sent, inst, outbuf, foreign, call>>

\* idn: idn_response = self.device.write("*IDN?"); return idn_response
Idn(p) ==
    /\ pc[p] = "idn"
    /\ IF obj.device = "handle"
       THEN \E ok \in BOOLEAN :
              /\ DeviceWrite(p, CmdIdn, ok)
              /\ call' = [call EXCEPT !.ok = ok, !.resp = IdnResp(obj.cls)]
              /\ ret' = IF ok THEN RetInt(BytesWritten)
                        ELSE RetRaise("VisaIOError")
       ELSE /\ ret' = RetRaise("AttributeError")
            /\ NoExchange
    /\ pc' = [pc EXCEPT ![p] = "idle"]
    /\ OpFrame

\* get_idn: idn = self.device.query("*IDN?"); return idn
GetIdn(p) ==
    /\ pc[p] = "get_idn"
    /\ IF obj.device = "handle"
       THEN \E ok \in BOOLEAN :
              /\ DeviceQuery(p, CmdIdn, ok)
              /\ call' = [call EXCEPT !.ok = ok, !.resp = IdnResp(obj.cls)]
              /\ ret' = IF ok THEN RetStr(IdnResp(obj.cls))
                        ELSE RetRaise("VisaIOError")
       ELSE /\ ret' = RetRaise("AttributeError")
            /\ NoExchange
    /\ pc' = [pc EXCEPT ![p] = "idle"]
    /\ OpFrame

\* Readings the multimeter may answer with, well-formed or not.
MeasResps == {<<"1", "2">>, <<"0">>} \cup Malformed
MeasOutcomes == {[raised |-> TRUE, resp |-> << >>]}
                \cup {[raised |-> FALSE, resp |-> r] : r \in MeasResps}

\* Slip: the exceptions of the query and of float are not caught.
MeasValue_Uncaught(o) ==
    IF o.raised THEN RetRaise("VisaIOError")
    ELSE IF IsNumeral(o.resp) THEN RetFloat(FloatOfStr(o.resp).v)
    ELSE RetRaise("ValueError")

\* try: return float(self.device.query(command))
\* except Exception: return None
MeasValue(o) ==
    IF ~o.raised /\ IsNumeral(o.resp) THEN RetFloat(FloatOfStr(o.resp).v)
    ELSE RetNone

\* meas_dcv / meas_res of Keithley2100 and Keysight34461A.  Without a
\* handle self.device.query raises AttributeError, which is caught too.
Meas(p, at, cmd) ==
    /\ pc[p] = at
    /\ IF obj.device = "handle"
       THEN \E o \in MeasOutcomes :
              /\ DeviceQuery(p, cmd, ~o.raised)
              /\ call' = [call EXCEPT !.ok = ~o.raised, !.resp = o.resp]
              /\ ret' = MeasValue(o)
       ELSE /\ ret' = RetNone
            /\ NoExchange
    /\ pc' = [pc EXCEPT ![p] = "idle"]
    /\ OpFrame

MeasDcv(p) == Meas(p, "meas_dcv", CmdMeasDcv(obj.cls))
MeasRes(p) == Meas(p, "meas_res", CmdMeasRes(obj.cls))

Next ==
    \E p \in threads :
        \/ AcquireWaveform(p)
        \/ LoopTest(p)
        \/ DataSource(p)
        \/ DataWidth(p)
        \/ DataEncoding(p)
        \/ Wai(p)
        \/ Ymult(p)
        \/ Yzero(p)
        \/ Yoff(p)
        \/ Xincr(p)
        \/ Curve(p)
        \/ ReadRaw(p)
        \/ WaitUntilReady(p)
        \/ Opc(p)
        \/ Sleep(p)
        \/ Construct(p)
        \/ CallConnectUsb(p)
        \/ CallConnectEthernet(p)
        \/ CallOp(p)
        \/ Idn(p)
        \/ GetIdn(p)
        \/ MeasDcv(p)
        \/ MeasRes(p)

Spec == Init /\ [][Next]_vars

\* One thread, scheduled whenever it can take a step, over a transport whose
\* faults run out: from some point on the instrument answers every command,
\* and answers *OPC? with a truthy integer.
InitSolo == Init /\ threads = {"t1"}
FairSpec == InitSolo /\ [][Next]_vars /\ WF_vars(Next)

\* ---- properties ----------------------------------------------------------
ConfigCmds(p) == <<CmdDataSource(req[p].chan), CmdDataWidth(req[p].width),
                   CmdDataEncoding(req[p].enc)>>
Faults(p) == curveFails[p] + otherFaults[p]
Scaling == {"ymult", "yzero", "yoff", "xincr"}

\* C1 (as stated): a call that met no fault has handed exactly eight commands
\* to the transport: source, width, encoding, YMULT?, YZERO?, YOFF?, XINCR?,
\* CURVE?, with nothing in between.
C1_EightCommands ==
    \A p \in Procs :
        (pc[p] = "ret" /\ Faults(p) = 0) =>
            sent[p] = ConfigCmds(p) \o <<CmdYmult, CmdYzero, CmdYoff,
                                         CmdXincr, CmdCurve>>

\* C1 (amended): a call that met no fault made one attempt and handed exactly
\* nine commands to the transport: source, width, encoding, *WAI, YMULT?,
\* YZERO?, YOFF?, XINCR?, CURVE?; and in every attempt the three configuration
\* commands precede CURVE?.
C1_NineCommands ==
    \A p \in Procs :
        /\ (pc[p] = "ret" /\ Faults(p) = 0) =>
              /\ attempts[p] = 1
              /\ sent[p] = ConfigCmds(p) \o <<CmdWai, CmdYmult, CmdYzero,
                                              CmdYoff, CmdXincr, CmdCurve>>
        /\ \A i \in 1..Len(sent[p]) :
              sent[p][i] = CmdCurve =>
                  i > 3 /\ SubSeq(sent[p], 1, 3) = ConfigCmds(p)

C1_Witness == \E p \in Procs : pc[p] = "ret" /\ Faults(p) = 0

\* C2: no attempt in which the transport raised reaches the return.
C2_FailedAttemptNeverReturns ==
    \A p \in Procs : pc[p] = "ret" => ~failed[p]

\* C3: a call in which only the sample-block step met faults, k of them, made
\* exactly k + 1 attempts, each begun at the source command, and returned a
\* complete result.
C3_CurveRetries ==
    \A p \in Procs :
        /\ (pc[p] = "ret" /\ otherFaults[p] = 0) =>
              /\ attempts[p] = curveFails[p] + 1
              /\ good[p] = 1
              /\ \A n \in Scaling : loc[p][n].k = "float"
              /\ loc[p].data.k = "bytes"
        /\ (pc[p] \in AcqSteps \ {"loop"} /\ sent[p] # << >>) =>
              sent[p][1] = CmdDataSource(req[p].chan)

C3_Witness ==
    \E p \in Procs :
        pc[p] = "ret" /\ otherFaults[p] = 0 /\ curveFails[p] = 2
        /\ attempts[p] = 3

\* C4: with a single caller, every local returned was bound during the final
\* attempt, after that attempt's own source, width and encoding commands, and
\* the block is the one read_raw delivered.
C4_FreshResult ==
    \A p \in Procs :
        (pc[p] = "ret" /\ threads = {p}) =>
            /\ fresh[p] = LocalNames
            /\ Len(sent[p]) > 3
            /\ SubSeq(sent[p], 1, 3) = ConfigCmds(p)
            /\ loc[p].data = lastRead[p]
            /\ loc[p].data # NoBlock

C4_Witness ==
    \E p \in Procs :
        pc[p] = "ret" /\ threads = {p} /\ attempts[p] > 1 /\ curveFails[p] > 0

\* C5: whenever acquire_waveform has returned, gain, zero, offset and
\* increment are numbers, never None.
C5_NoAbsentScaling ==
    \A p \in Procs :
        pc[p] = "ret" => \A n \in Scaling : loc[p][n].k = "float"

\* ---- wait_until_ready
IsQueryEvent(e) == e # "sleep"
QueryEvents(p) == SelectSeq(wlog[p], IsQueryEvent)
FirstTruthy(q) ==
    IF \E i \in 1..Len(q) : q[i] = "truthy"
    THEN CHOOSE i \in 1..Len(q) :
            q[i] = "truthy" /\ \A j \in 1..(i - 1) : q[j] # "truthy"
    ELSE 0

\* C6: wait_until_ready returns after exactly K queries, K the index of the
\* first truthy response; a response of 0 is followed by another query; with
\* K = 1 it returns without having slept.
C6_ReturnsAtFirstTruthy ==
    \A p \in Procs :
        /\ pc[p] = "wret" =>
              /\ Len(QueryEvents(p)) = FirstTruthy(QueryEvents(p))
              /\ Len(QueryEvents(p)) = 1 => wlog[p] = <<"truthy">>
        /\ (wlog[p] # << >> /\ wlog[p][Len(wlog[p])] = "falsy") =>
              pc[p] = "opc"

C6_Witness ==
    \E p \in Procs :
        pc[p] = "wret" /\ QueryEvents(p) = <<"falsy", "falsy", "truthy">>

\* C7: two *OPC? queries are never issued without a sleep between them.
C7_SleepBeforeEveryRetry ==
    \A p \in Procs :
        \A i \in 1..(Len(wlog[p]) - 1) :
            wlog[p][i] # "sleep" => wlog[p][i + 1] = "sleep"

\* C8: wait_until_ready leaves its loop only by returning after a truthy
\* response, whatever the number of queries before it, and it does return
\* once the instrument answers truthy.
C8_ReturnsIffTruthy ==
    /\ [][\A p \in Procs :
            (pc[p] \in {"opc", "sleep"} /\ pc'[p] \notin {"opc", "sleep"}) =>
                /\ pc'[p] = "wret"
                /\ wlog'[p][Len(wlog'[p])] = "truthy"]_vars
    /\ \A p \in {"t1"} : (pc[p] \in {"opc", "sleep"}) ~> (pc[p] = "wret")

C8_Witness ==
    \E p \in Procs :
        /\ pc[p] = "wret"
        /\ \E i \in 1..Len(wlog[p]) : wlog[p][i] = "raised"
        /\ \E i \in 1..Len(wlog[p]) : wlog[p][i] = "falsy"

\* C9: acquire_waveform leaves its loop only by returning, after an attempt
\* that ran through the raw block read; no number of failed attempts ends
\* it; and it returns once an attempt runs through.
C9_RetriesUntilSuccess ==
    /\ [][\A p \in Procs :
            (pc[p] \in AcqSteps /\ pc'[p] \notin AcqSteps) =>
                /\ pc'[p] = "ret"
                /\ pc[p] = "loop" /\ good[p] = 1
                /\ "data" \in fresh[p]
                /\ sent[p][Len(sent[p])] = CmdCurve]_vars
    /\ \A p \in {"t1"} : (pc[p] \in AcqSteps) ~> (pc[p] = "ret")

C9_Witness ==
    \E p \in Procs : pc[p] = "ret" /\ attempts[p] = 3

\* C10: a call that no other thread's use of the transport overlapped returns
\* the preamble and the block of its own channel, width and encoding; a call
\* that was overlapped can return those of another selection.
Expected(p, n) ==
    CASE n = "ymult" -> FloatOfStr(PreambleResp(CmdYmult, req[p].chan))
      [] n = "yzero" -> FloatOfStr(PreambleResp(CmdYzero, req[p].chan))
      [] n = "yoff" -> FloatOfStr(PreambleResp(CmdYoff, req[p].chan))
      [] n = "xincr" -> FloatOfStr(PreambleResp(CmdXincr, req[p].chan))

SameConfiguration(p) ==
    /\ \A n \in Scaling : loc[p][n] \in {Expected(p, n), None}
    /\ loc[p].data = [k |-> "bytes", src |-> req[p].chan,
                      width |-> req[p].width, enc |-> req[p].enc]

C10_NoOverlapSameConfiguration ==
    \A p \in Procs : (pc[p] = "ret" /\ ~foreign[p]) => SameConfiguration(p)

C10_Witness ==
    \E p \in Procs : pc[p] = "ret" /\ foreign[p] /\ ~SameConfiguration(p)

\* ---- acquire_waveform, continued
Last(s) == s[Len(s)]
Sleeps(p) == Cardinality({i \in 1..Len(wlog[p]) : wlog[p][i] = "sleep"})
Selection(p) == [src |-> req[p].chan, width |-> req[p].width,
                 enc |-> req[p].enc]

\* C11: when the call of a single caller has returned, the instrument's data
\* selection is the (chan, width, enc) of the call, not what it was before;
\* CURVE? is the last command of the call, and the call wrote nothing but its
\* three selection commands, *WAI and the five queries.
C11_SelectionLeftAsRequested ==
    \A p \in Procs :
        (pc[p] = "ret" /\ threads = {p}) =>
            /\ inst = Selection(p)
            /\ Last(sent[p]) = CmdCurve
            /\ \A i \in 1..Len(sent[p]) :
                  sent[p][i] \in {CmdDataSource(req[p].chan),
                                  CmdDataWidth(req[p].width),
                                  CmdDataEncoding(req[p].enc), CmdWai,
                                  CmdYmult, CmdYzero, CmdYoff, CmdXincr,
                                  CmdCurve}

C11_Witness ==
    \E p \in Procs :
        pc[p] = "ret" /\ threads = {p} /\ req[p].chan = "2"
        /\ inst = [src |-> "2", width |-> "1", enc |-> "RPB"]

\* C15 (as stated): every retry of the sequence comes after a sleep: a call
\* that has begun its n-th attempt has slept n - 1 times.
C15_SleepBetweenAttempts ==
    \A p \in Procs :
        (pc[p] = "src" /\ attempts[p] > 1) => Sleeps(p) >= attempts[p] - 1

\* C15 (amended): acquire_waveform never sleeps: a failed attempt is followed
\* by the next attempt's first command with no sleep in between.
C15_NoSleepBetweenAttempts ==
    \A p \in Procs :
        pc[p] \in AcqSteps \cup {"ret"} => Sleeps(p) = 0

C15_Witness == \E p \in Procs : pc[p] = "src" /\ attempts[p] > 1

\* C17: in every attempt *WAI is written after the encoding command and
\* right before WFMPRE:YMULT?, so nine commands precede the raw read; an
\* exception of the *WAI write aborts the attempt like one of the gain query.
C17_WaiBeforeGainQuery ==
    \A p \in Procs :
        /\ \A i \in 1..Len(sent[p]) :
              sent[p][i] = CmdYmult =>
                  /\ i = 5
                  /\ sent[p][4] = CmdWai
                  /\ sent[p][3] = CmdDataEncoding(req[p].enc)
        /\ pc[p] = "read" => Len(sent[p]) = 9
        /\ pc[p] = "ymult" => ~failed[p] /\ Last(sent[p]) = CmdWai
        /\ (pc[p] = "loop" /\ attempts[p] > 0 /\ Last(sent[p]) = CmdWai) =>
              good[p] = 0 /\ failed[p] /\ "ymult" \notin fresh[p]

C17_Witness ==
    \E p \in Procs :
        pc[p] = "loop" /\ attempts[p] > 0 /\ Last(sent[p]) = CmdWai

\* C18: the gain that acquire_waveform returns is a number; a gain query that
\* fails or answers a non-numeral binds nothing and restarts the attempt.
C18_GainIsNumber ==
    \A p \in Procs :
        /\ pc[p] = "ret" => loc[p].ymult.k = "float"
        /\ "ymult" \in fresh[p] => loc[p].ymult.k = "float"
        /\ (pc[p] = "loop" /\ attempts[p] > 0 /\ Last(sent[p]) = CmdYmult) =>
              good[p] = 0 /\ "ymult" \notin fresh[p]

C18_Witness ==
    \E p \in Procs :
        pc[p] = "loop" /\ attempts[p] > 0 /\ Last(sent[p]) = CmdYmult

\* ---- construction and the other drivers
Supported(cls, method) ==
    \/ method = "USB" /\ HasUsb(cls)
    \/ method = "IP" /\ HasIp(cls)

Idle == \A p \in threads : pc[p] = "idle"

\* C12: a constructor called with a method its class supports makes exactly
\* one open attempt and completes with an object whose status is "Connected"
\* with a handle or "Not Connected" without one; it never raises.
C12_ConstructionCompletes ==
    (call.op = "__init__" /\ Supported(call.cls, call.method)) =>
        /\ Len(opened) = 1
        /\ ret = RetObject
        /\ obj.cls = call.cls
        /\ \/ obj.status = "Connected" /\ obj.device = "handle"
           \/ obj.status = "Not Connected" /\ obj.device = "None"

\* C13: connect_usb_instrument opens the address as given, and
\* connect_ethernet_instrument opens TCPIP0::<ip>::<port>::SOCKET with
\* use_socket and TCPIP0::<ip>::INSTR without; each returns (handle, the
\* string it opened, "Connected"), or (None, None, "Not Connected") when the
\* open raised a VISA I/O error.
C13_ConnectResult ==
    LET digits == IF call.port = 80 THEN <<"8", "0">>
                  ELSE <<"5", "0", "2", "5">>
        resource == IF call.op = "connect_usb_instrument" THEN call.address
                    ELSE IF call.use_socket
                    THEN <<"TCPIP0::">> \o call.address \o <<"::">>
                             \o digits \o <<"::SOCKET">>
                    ELSE <<"TCPIP0::">> \o call.address \o <<"::INSTR">>
    IN  call.op \in {"connect_usb_instrument",
                     "connect_ethernet_instrument"} =>
            /\ opened = <<resource>>
            /\ ret.k = "tuple"
            /\ ret.t = IF call.ok
                       THEN [device |-> "handle",
                             address |-> [k |-> "str", s |-> resource],
                             status |-> "Connected"]
                       ELSE [device |-> "None",
                             address |-> [k |-> "None", s |-> << >>],
                             status |-> "Not Connected"]

C13_Witness ==
    /\ call.op = "connect_ethernet_instrument"
    /\ call.use_socket /\ call.port = 80 /\ call.ok
    /\ ret.t.status = "Connected"
    /\ ret.t.address.s = <<"TCPIP0::", "10.0.0.5", "::", "8", "0",
                           "::SOCKET">>

\* C14: a returned meas_dcv / meas_res has returned the float its response
\* parses to, or None when the query raised, the response was no numeral or
\* the object has no handle; it has never raised.
C14_MeasFloatOrNone ==
    (call.op \in {"meas_dcv", "meas_res"} /\ Idle) =>
        /\ ret.k \in {"float", "None"}
        /\ ret.k = "float" <=>
              (obj.device = "handle" /\ call.ok /\ IsNumeral(call.resp))
        /\ ret.k = "float" =>
              ret.n = (IF call.resp = <<"1", "2">> THEN 12 ELSE 0)

C14_Witness ==
    /\ call.op \in {"meas_dcv", "meas_res"} /\ Idle
    /\ obj.status = "Not Connected" /\ obj.device = "None"
    /\ ret = RetNone

\* C16: an idn call that completed on a connected DG4000 / Keithley6221 has
\* returned the instrument's *IDN? response, as get_idn does, and has left
\* no unread response in the instrument's output buffer.
C16_IdnReturnsResponse ==
    (call.op = "idn" /\ Idle /\ obj.device = "handle" /\ call.ok) =>
        /\ ret = RetStr(IdnResp(obj.cls))
        /\ outbuf = NoBlock

\* C19: on an object constructed with a supported method, status is
\* "Connected" exactly when device is a handle and exactly when address is
\* a string; connected_with is "USB" / "Ethernet" by the method when
\* Connected and None otherwise; and no step after construction changes
\* the object.
C19_ConnectionFieldsAgree ==
    /\ [](Supported(obj.cls, obj.method) =>
            /\ obj.status \in {"Connected", "Not Connected"}
            /\ obj.device \in {"handle", "None"}
            /\ obj.status = "Connected" <=> obj.device = "handle"
            /\ obj.status = "Connected" <=> obj.address.k = "str"
            /\ obj.status # "Connected" => obj.address.k = "None"
            /\ obj.connected_with =
                  IF obj.status # "Connected" THEN "None"
                  ELSE IF obj.method = "USB" THEN "USB" ELSE "Ethernet")
    /\ [][obj # NoObject => obj' = obj]_vars

C19_Witness ==
    /\ obj.cls \in {"DG4000", "DP800", "Keysight34461A"}
    /\ obj.status = "Not Connected" /\ obj.connected_with = "None"
    /\ call.op \in {"idn", "get_idn", "meas_dcv", "meas_res"} /\ Idle

\* C20: Keysight34461A constructed with a method other than "USB" / "IP"
\* opens nothing and records device None, address None, status
\* "Invalid Method", connected_with None; a Keysight34461A has its timeout
\* set, to 5000, exactly when its status is "Connected".
C20_InvalidMethod ==
    /\ (call.op = "__init__" /\ call.cls = "Keysight34461A"
        /\ call.method \notin {"USB", "IP"}) =>
            /\ opened = << >>
            /\ ret = RetObject
            /\ obj.device = "None"
            /\ obj.address = [k |-> "None", s |-> << >>]
            /\ obj.status = "Invalid Method"
            /\ obj.connected_with = "None"
    /\ obj.cls = "Keysight34461A" =>
            obj.timeout = (IF obj.status = "Connected" THEN <<5000>>
                           ELSE << >>)

C20_Witness ==
    /\ call.op = "__init__" /\ call.cls = "Keysight34461A"
    /\ call.method = "GPIB"
    /\ obj.status = "Invalid Method"

====
